---- MODULE Spec2Model ----
(***************************************************************************)
(* Model of the YouTube community-post scraper: scraper.py (request layer, *)
(* PostExtractor, scrape_community_posts, save_posts) and cli.py (main).   *)
(*                                                                         *)
(* Conventions of the translation                                          *)
(*  - a Python str is a sequence of one-character strings, '' is <<>>;     *)
(*  - a Python dict is a function on its keys, {} is the empty function;   *)
(*  - a Python list is a sequence;                                         *)
(*  - None is NoneVal where a str or list is expected and NoneDict where  *)
(*    a dict is expected; neither is a str, list or dict of the model;     *)
(*  - an operation that can raise returns Ok(v) or Raise(msg).             *)
(***************************************************************************)
EXTENDS Integers, Sequences, FiniteSets, TLC

VARIABLES
    max_posts,      \* main: args.num_posts, <<>> for float('inf'), <<m>> for an int m
    pc,             \* position of the run in main / scrape_community_posts
    contents,       \* scrape_community_posts: item list of the page being processed
    token,          \* scrape_community_posts: continuation token, NoneVal when no marker
    idx,            \* scrape_community_posts: position of the for loop in contents
    posts,          \* scrape_community_posts: accumulated post records
    error,          \* the exception in flight or caught: its message, outermost part first
    returned,       \* main: <<ps>> once scrape_community_posts returned ps, <<>> before
    file,           \* the output file: NoneDict (absent), Partial, or the written document
    stdout,         \* main: what was printed, NoneDict before
    exit_code,      \* main: process exit status, Running before main returns
    requests,       \* history: payloads handed to _make_request, in order
    seen,           \* history: post-thread items of every item list received, in order
    last_marked,    \* history: whether the item list received last holds a continuation marker
    bare_marker,    \* history: whether some item list received holds a continuation marker
                    \*          and no post-thread item
    writes,         \* history: number of times save_posts opened the output file
    listed,         \* history: whether the tab list received holds a community tab:
                    \*          "yes", "no", or "unknown" while no tab list was received
    cause,          \* history: what failed: "transport", "structure" or "save", else "none"
    post_renderer,  \* extract_post_data: its argument
    post_data       \* extract_post_data: its outcome, NoneDict before the call

vars == <<max_posts, pc, contents, token, idx, posts, error, returned, file,
          stdout, exit_code, requests, seen, last_marked, bare_marker, writes, listed, cause,
          post_renderer, post_data>>

---------------------------------------------------------------------------
(* Bounds of the model *)

MaxItems == 2       \* items in one item list
MaxRequests == 2    \* requests of one run (initial and continuations)
MaxMax == 2         \* largest explicit --num-posts
MaxRuns == 2        \* content runs of one post renderer

---------------------------------------------------------------------------
(* Python values *)

NoneVal == <<"None">>
NoneDict == [None |-> TRUE]
EmptyDict == <<>>
Ok(v) == [ok |-> TRUE, val |-> v]
Raise(msg) == [ok |-> FALSE, exc |-> msg]

\* dict.get(k, default)
Get(d, k, default) == IF k \in DOMAIN d THEN d[k] ELSE default

\* bool(s) of a str, list or None
Truthy(s) == s # NoneVal /\ s # <<>>

\* d[k1][k2]... : the value, or the KeyError of the first missing key
RECURSIVE Subscript(_, _)
Subscript(d, keys) ==
    IF keys = <<>> THEN Ok(d)
    ELSE IF Head(keys) \in DOMAIN d THEN Subscript(d[Head(keys)], Tail(keys))
    ELSE Raise(<<"KeyError", Head(keys)>>)

Whitespace == {" "}

\* str.lower(), on the letters the model uses
LowerChar(c) ==
    CASE c = "C" -> "c" [] c = "O" -> "o" [] c = "M" -> "m" [] c = "U" -> "u"
      [] c = "N" -> "n" [] c = "I" -> "i" [] c = "T" -> "t" [] c = "Y" -> "y"
      [] c = "H" -> "h" [] c = "E" -> "e"
      [] OTHER -> c
Lower(s) == [i \in 1..Len(s) |-> LowerChar(s[i])]

\* index of the first element of s that is in set, Len(s)+1 if none
RECURSIVE FirstIn(_, _, _)
FirstIn(s, set, i) ==
    IF i > Len(s) \/ s[i] \in set THEN i ELSE FirstIn(s, set, i + 1)

\* index of the first element of s that is not in set, Len(s)+1 if none
RECURSIVE FirstNotIn(_, _, _)
FirstNotIn(s, set, i) ==
    IF i > Len(s) \/ s[i] \notin set THEN i ELSE FirstNotIn(s, set, i + 1)

\* index of the last element of s that is in set, 0 if none
RECURSIVE LastIn(_, _, _)
LastIn(s, set, i) ==
    IF i = 0 \/ s[i] \in set THEN i ELSE LastIn(s, set, i - 1)

\* s.rsplit(sep, 1)[0] : the cut made at the last separator
SplitHead_at_last(s, sep) ==
    IF LastIn(s, {sep}, Len(s)) = 0 THEN s ELSE SubSeq(s, 1, LastIn(s, {sep}, Len(s)) - 1)

\* s.split(sep)[0]
SplitHead(s, sep) == SubSeq(s, 1, FirstIn(s, {sep}, 1) - 1)

\* s.split()[0] : the first whitespace-separated word, IndexError if there is none
SplitWsHead(s) ==
    LET b == FirstNotIn(s, Whitespace, 1)
    IN  IF b > Len(s) THEN Raise(<<"IndexError">>)
        ELSE Ok(SubSeq(s, b, FirstIn(s, Whitespace, b) - 1))

\* s.startswith(c)
StartsWith(s, c) == Len(s) >= 1 /\ s[1] = c

---------------------------------------------------------------------------
(* PostExtractor *)

Origin == <<"h","t","t","p","s",":","/","/","w","w","w",".",
            "y","o","u","t","u","b","e",".","c","o","m">>
HighResSuffix == <<"=","s","2","1","6","0">>
Zero == <<"0">>

RECURSIVE extract_text_content(_)
extract_text_content(content_runs) ==
    IF content_runs = <<>> THEN <<>>
    ELSE Get(Head(content_runs), "text", <<>>) \o extract_text_content(Tail(content_runs))

\* the url of a run left as upstream gives it
RunUrl_unresolved(run) ==
    Get(Get(Get(Get(run, "navigationEndpoint", EmptyDict),
        "commandMetadata", EmptyDict), "webCommandMetadata", EmptyDict), "url", <<>>)

\* lines 75-79: the url of a run that has a navigationEndpoint
RunUrl(run) ==
    LET url == Get(Get(Get(Get(run, "navigationEndpoint", EmptyDict),
                   "commandMetadata", EmptyDict), "webCommandMetadata", EmptyDict),
                   "url", <<>>)
    IN  IF StartsWith(url, "/") THEN Origin \o url ELSE url

\* lines 73-83: the links of the runs
RECURSIVE ExtractLinks(_)
ExtractLinks(runs) ==
    IF runs = <<>> THEN <<>>
    ELSE LET run == Head(runs)
             here == IF "navigationEndpoint" \in DOMAIN run /\ RunUrl(run) # <<>>
                     THEN <<[text |-> Get(run, "text", <<>>), url |-> RunUrl(run)]>>
                     ELSE <<>>
         IN  here \o ExtractLinks(Tail(runs))

\* line 86
ExtractTimestamp(r) ==
    LET runs == Get(Get(r, "publishedTimeText", EmptyDict), "runs", <<EmptyDict>>)
    IN  IF runs = <<>> THEN Raise(<<"IndexError">>)
        ELSE Ok(Get(runs[1], "text", <<>>))

\* lines 94-96
ExtractCommentsCount(r) ==
    LET comment_count ==
            Get(Get(Get(Get(Get(r, "actionButtons", EmptyDict),
                "commentActionButtonsRenderer", EmptyDict), "replyButton", EmptyDict),
                "buttonRenderer", EmptyDict), "text", EmptyDict)
        label == Get(comment_count, "simpleText", Zero)
    IN  IF label # <<>> THEN SplitWsHead(label) ELSE Ok(Zero)

\* lines 99-112
ExtractImages(r) ==
    LET attachment == Get(r, "backstageAttachment", EmptyDict)
    IN  IF "backstageImageRenderer" \in DOMAIN attachment
        THEN LET thumbnails == Subscript(attachment,
                                   <<"backstageImageRenderer", "image", "thumbnails">>)
             IN  IF ~thumbnails.ok THEN thumbnails
                 ELSE IF thumbnails.val = <<>> THEN Ok(<<>>)
                 ELSE LET standard_url == Subscript(thumbnails.val[1], <<"url">>)
                      IN  IF ~standard_url.ok THEN standard_url
                          ELSE Ok(<<[standard |-> standard_url.val,
                                     high_res |-> SplitHead(standard_url.val, "=")
                                                      \o HighResSuffix]>>)
        ELSE Ok(<<>>)

extract_post_data(r) ==
    LET content_text == Get(r, "contentText", EmptyDict)
        hasRuns == "runs" \in DOMAIN content_text
        timestamp == ExtractTimestamp(r)
        comments == ExtractCommentsCount(r)
        images == ExtractImages(r)
    IN  IF ~timestamp.ok THEN timestamp
        ELSE IF ~comments.ok THEN comments
        ELSE IF ~images.ok THEN images
        ELSE Ok([post_id |-> Get(r, "postId", <<>>),
                 content |-> IF hasRuns THEN extract_text_content(content_text.runs)
                             ELSE <<>>,
                 timestamp |-> timestamp.val,
                 likes |-> Get(Get(r, "voteCount", EmptyDict), "simpleText", Zero),
                 comments_count |-> comments.val,
                 images |-> images.val,
                 links |-> IF hasRuns THEN ExtractLinks(content_text.runs) ELSE <<>>])

---------------------------------------------------------------------------
(* Upstream: the post renderers, items and responses the runs are fed *)

SeqsUpTo(S, n) == UNION {[1..k -> S] : k \in 0..n}

Nav(url) ==
    [navigationEndpoint |-> [commandMetadata |-> [webCommandMetadata |-> [url |-> url]]]]

Runs ==
    { EmptyDict,
      [text |-> <<"x">>],
      [text |-> <<"y">>] @@ Nav(<<"/","p">>),
      [text |-> <<"z">>] @@ Nav(<<"h","p">>),
      [navigationEndpoint |-> EmptyDict] }

IdParts == {EmptyDict, [postId |-> <<"a">>]}

ContentParts ==
    {EmptyDict, [contentText |-> EmptyDict]}
        \cup {[contentText |-> [runs |-> rs]] : rs \in SeqsUpTo(Runs, MaxRuns)}

TimeParts ==
    { EmptyDict,
      [publishedTimeText |-> EmptyDict],
      [publishedTimeText |-> [runs |-> <<>>]],
      [publishedTimeText |-> [runs |-> <<EmptyDict>>]],
      [publishedTimeText |-> [runs |-> <<[text |-> <<"1","d">>]>>]] }

VoteParts ==
    {EmptyDict, [voteCount |-> EmptyDict], [voteCount |-> [simpleText |-> <<"7">>]]}

ReplyButton(b) ==
    [actionButtons |-> [commentActionButtonsRenderer |-> [replyButton |->
        [buttonRenderer |-> b]]]]

ReplyParts ==
    {EmptyDict}
        \cup {ReplyButton(b) : b \in { EmptyDict,
                                       [text |-> EmptyDict],
                                       [text |-> [simpleText |-> <<>>]],
                                       [text |-> [simpleText |-> <<"5"," ","r">>]],
                                       [text |-> [simpleText |-> <<" ">>]] }}

Image(i) == [backstageAttachment |-> [backstageImageRenderer |-> i]]

AttachParts ==
    {EmptyDict, [backstageAttachment |-> EmptyDict]}
        \cup {Image(i) : i \in
                { EmptyDict,
                  [image |-> EmptyDict],
                  [image |-> [thumbnails |-> <<>>]],
                  [image |-> [thumbnails |-> <<EmptyDict>>]],
                  [image |-> [thumbnails |-> <<[url |-> <<"h","=","w","=","x">>]>>]],
                  [image |-> [thumbnails |-> <<[url |-> <<"h">>], [url |-> <<"g">>]>>]] }}

\* the post renderers extract_post_data is applied to on its own
Renderers ==
    {i @@ c @@ t @@ v @@ b @@ a :
        i \in IdParts, c \in ContentParts, t \in TimeParts,
        v \in VoteParts, b \in ReplyParts, a \in AttachParts}

\* the post renderers of the pages of a run: two that extract, one that does not
RA == [postId |-> <<"a">>]
RB == [postId |-> <<"b">>, voteCount |-> [simpleText |-> <<"7">>]]
RBad == [postId |-> <<"c">>, publishedTimeText |-> [runs |-> <<>>]]

Thread(r) == [backstagePostThreadRenderer |-> [post |-> [backstagePostRenderer |-> r]]]

Marker(t) ==
    [continuationItemRenderer |-> [continuationEndpoint |->
        [continuationCommand |-> [token |-> t]]]]

Tokens == {<<"A">>, <<"B">>, <<>>}

Items == {Thread(r) : r \in {RA, RB, RBad}} \cup {Marker(t) : t \in Tokens}

ItemLists == SeqsUpTo(Items, MaxItems)

Community == <<"C","o","m","m","u","n","i","t","y">>
COMMUNITY == <<"C","O","M","M","U","N","I","T","Y">>
community == <<"c","o","m","m","u","n","i","t","y">>
Home == <<"H","o","m","e">>

Section(items) ==
    [sectionListRenderer |-> [contents |-> <<[itemSectionRenderer |-> [contents |-> items]]>>]]

Tab(title, items) == [tabRenderer |-> [title |-> title, content |-> Section(items)]]

Browse(tabs) == [contents |-> [twoColumnBrowseResultsRenderer |-> [tabs |-> tabs]]]

\* initial responses without a community tab
NoCommunityResponses ==
    { Browse(<<>>),
      Browse(<<Tab(Home, <<Thread(RA)>>)>>),
      Browse(<<[expandableTabRenderer |-> EmptyDict], Tab(Home, <<>>)>>),
      Browse(<<[tabRenderer |-> EmptyDict]>>) }

\* initial responses that lack another required container
BrokenInitialResponses ==
    { EmptyDict,
      [contents |-> EmptyDict],
      Browse(<<[tabRenderer |-> [title |-> Community]]>>),
      Browse(<<[tabRenderer |-> [title |-> Community,
                                 content |-> [sectionListRenderer |-> [contents |-> <<>>]]]]>>) }

InitialResponses ==
    {Browse(<<Tab(Home, <<>>), Tab(Community, items)>>) : items \in ItemLists}
        \cup {Browse(<<Tab(COMMUNITY, items), Tab(community, <<>>)>>) : items \in ItemLists}
        \cup NoCommunityResponses
        \cup BrokenInitialResponses

Continuation(items) ==
    [onResponseReceivedEndpoints |->
        <<[appendContinuationItemsAction |-> [continuationItems |-> items]]>>]

ContinuationResponses ==
    {Continuation(items) : items \in ItemLists}
        \cup { EmptyDict,
               [onResponseReceivedEndpoints |-> <<>>],
               [onResponseReceivedEndpoints |-> <<EmptyDict>>] }

\* what requests.post, raise_for_status and response.json can raise
TransportFailures == {"ConnectionError", "HTTPError", "JSONDecodeError"}

ChannelId == <<"U","C">>

---------------------------------------------------------------------------
(* YouTubeCommunityAPI: the payloads of the two requests *)

get_initial_data(channel_id) == [browseId |-> channel_id]
get_continuation_data(continuation_token) == [continuation |-> continuation_token]

---------------------------------------------------------------------------
(* scrape_community_posts: the pieces of the parse *)

ParsePrefix == "Failed to parse YouTube response"
RequestPrefix == "API request failed"

\* the search of lines 127-132 without its test of the title
RECURSIVE FindCommunityTab_any_title(_)
FindCommunityTab_any_title(tabs) ==
    IF tabs = <<>> THEN NoneDict
    ELSE IF "tabRenderer" \in DOMAIN Head(tabs) THEN Head(tabs).tabRenderer
    ELSE FindCommunityTab_any_title(Tail(tabs))

\* lines 127-132: the tabRenderer of the first tab titled "community", else None
RECURSIVE FindCommunityTab(_)
FindCommunityTab(tabs) ==
    IF tabs = <<>> THEN NoneDict
    ELSE LET tab == Head(tabs)
         IN  IF "tabRenderer" \in DOMAIN tab
                /\ Lower(Get(tab.tabRenderer, "title", <<>>)) = community
             THEN tab.tabRenderer
             ELSE FindCommunityTab(Tail(tabs))

\* the token looked for in the last item only
ExtractToken_last_item(items) ==
    IF items = <<>> \/ "continuationItemRenderer" \notin DOMAIN items[Len(items)]
    THEN Ok(NoneVal)
    ELSE Subscript(items[Len(items)], <<"continuationItemRenderer", "continuationEndpoint",
                                        "continuationCommand", "token">>)

\* the token of the last continuation marker instead of the first
RECURSIVE ExtractToken_last_marker(_)
ExtractToken_last_marker(items) ==
    IF items = <<>> THEN Ok(NoneVal)
    ELSE LET rest == ExtractToken_last_marker(Tail(items))
         IN  IF rest.ok /\ rest.val # NoneVal THEN rest
             ELSE IF "continuationItemRenderer" \in DOMAIN Head(items)
             THEN Subscript(Head(items), <<"continuationItemRenderer", "continuationEndpoint",
                                           "continuationCommand", "token">>)
             ELSE rest

\* lines 142-147 and 168-173: the token of the first continuation marker, else None
RECURSIVE ExtractToken(_)
ExtractToken(items) ==
    IF items = <<>> THEN Ok(NoneVal)
    ELSE IF "continuationItemRenderer" \in DOMAIN Head(items)
         THEN Subscript(Head(items), <<"continuationItemRenderer", "continuationEndpoint",
                                       "continuationCommand", "token">>)
         ELSE ExtractToken(Tail(items))

\* the item list and the token it carries
WithToken(items) ==
    LET t == ExtractToken(items)
    IN  IF t.ok THEN Ok([contents |-> items, token |-> t.val]) ELSE t

\* lines 126-147: the initial page
LocateCommunity(response) ==
    LET tabs == Subscript(response, <<"contents", "twoColumnBrowseResultsRenderer", "tabs">>)
    IN  IF ~tabs.ok THEN tabs
        ELSE LET community_tab == FindCommunityTab(tabs.val)
             IN  IF community_tab \in {NoneDict, EmptyDict} THEN Raise(<<"Community tab not found">>)
                 ELSE LET sections == Subscript(community_tab,
                                          <<"content", "sectionListRenderer", "contents">>)
                      IN  IF ~sections.ok THEN sections
                          ELSE IF sections.val = <<>> THEN Raise(<<"IndexError">>)
                          ELSE LET items == Subscript(sections.val[1],
                                                <<"itemSectionRenderer", "contents">>)
                               IN  IF ~items.ok THEN items ELSE WithToken(items.val)

\* lines 164-173: a continuation page
ContinuationItems(response) ==
    LET endpoints == Subscript(response, <<"onResponseReceivedEndpoints">>)
    IN  IF ~endpoints.ok THEN endpoints
        ELSE IF endpoints.val = <<>> THEN Raise(<<"IndexError">>)
        ELSE LET items == Subscript(endpoints.val[1],
                              <<"appendContinuationItemsAction", "continuationItems">>)
             IN  IF ~items.ok THEN items ELSE WithToken(items.val)

\* lines 151-153 and 177-179: the record of a post-thread item
ExtractThread(content) ==
    LET r == Subscript(content,
                 <<"backstagePostThreadRenderer", "post", "backstagePostRenderer">>)
    IN  IF ~r.ok THEN r ELSE extract_post_data(r.val)

IsThread(content) == "backstagePostThreadRenderer" \in DOMAIN content
IsMarker(content) == "continuationItemRenderer" \in DOMAIN content

\* the maximum left out of account
ReachedMax_ignored(n, max) == FALSE

\* the comparison of line 156 made strict
ReachedMax_strict(n, max) == max # <<>> /\ n > max[1]

\* len(posts) >= max_posts
ReachedMax(n, max) == max # <<>> /\ n >= max[1]

\* history: whether a response has a tab list, and a tab titled "community" in it
ListsCommunity(response) ==
    LET tabs == Subscript(response, <<"contents", "twoColumnBrowseResultsRenderer", "tabs">>)
    IN  IF ~tabs.ok THEN "unknown"
        ELSE IF \E i \in 1..Len(tabs.val) :
                    /\ "tabRenderer" \in DOMAIN tabs.val[i]
                    /\ "title" \in DOMAIN tabs.val[i].tabRenderer
                    /\ tabs.val[i].tabRenderer.title \in {Community, COMMUNITY, community}
             THEN "yes" ELSE "no"

\* history: the post-thread items of an item list
ThreadsOf(items) == SelectSeq(items, IsThread)
HasMarker(items) == \E i \in 1..Len(items) : IsMarker(items[i])
IsBare(items) == HasMarker(items) /\ ThreadsOf(items) = <<>>

---------------------------------------------------------------------------
(* The run: main calling scrape_community_posts and save_posts *)

Partial == [partial |-> TRUE]
Running == -1

MaxChoices == {<<>>} \cup {<<m>> : m \in 0..MaxMax}

Idle ==
    /\ contents = <<>>
    /\ token = NoneVal
    /\ idx = 0
    /\ posts = <<>>
    /\ error = NoneVal
    /\ returned = <<>>
    /\ file = NoneDict
    /\ stdout = NoneDict
    /\ exit_code = Running
    /\ requests = <<>>
    /\ seen = <<>>
    /\ last_marked = FALSE
    /\ bare_marker = FALSE
    /\ writes = 0
    /\ listed = "unknown"
    /\ cause = "none"

Init ==
    /\ max_posts \in MaxChoices
    /\ pc = "start"
    /\ Idle
    /\ post_renderer = EmptyDict
    /\ post_data = NoneDict

\* an exception that is swallowed, the posts accumulated so far being returned
Fail_returns_partial(msg, why) ==
    /\ error' = msg
    /\ cause' = why
    /\ returned' = <<posts>>
    /\ pc' = "save"

\* a failed request that is answered by starting the scrape over
Fail_retries(msg, why) ==
    /\ error' = msg
    /\ cause' = why
    /\ returned' = returned
    /\ pc' = IF why = "transport" THEN "start" ELSE "except"

\* an exception leaves scrape_community_posts for main's handler
Fail(msg, why) ==
    /\ error' = msg
    /\ cause' = why
    /\ returned' = returned
    /\ pc' = "except"

\* a page after the first whose token is not taken over
StartPage_keeps_token(page, loop) ==
    /\ contents' = page.contents
    /\ token' = IF Truthy(token) THEN token ELSE page.token
    /\ idx' = 1
    /\ seen' = seen \o ThreadsOf(page.contents)
    /\ last_marked' = HasMarker(page.contents)
    /\ bare_marker' = (bare_marker \/ IsBare(page.contents))
    /\ pc' = IF page.contents = <<>> THEN "while" ELSE loop

\* a page was parsed: the for loop over its items starts
StartPage(page, loop) ==
    /\ contents' = page.contents
    /\ token' = page.token
    /\ idx' = 1
    /\ seen' = seen \o ThreadsOf(page.contents)
    /\ last_marked' = HasMarker(page.contents)
    /\ bare_marker' = (bare_marker \/ IsBare(page.contents))
    /\ pc' = IF page.contents = <<>> THEN "while" ELSE loop

\* lines 122-147: the initial request and the parse of its response
GetInitialPage ==
    /\ pc = "start"
    /\ requests' = Append(requests, get_initial_data(ChannelId))
    /\ \/ \E f \in TransportFailures :
            /\ Fail(<<RequestPrefix, f>>, "transport")
            /\ UNCHANGED <<contents, token, idx, seen, last_marked, bare_marker, listed>>
       \/ \E response \in InitialResponses :
            LET page == LocateCommunity(response)
            IN  /\ listed' = ListsCommunity(response)
                /\ IF page.ok
                   THEN /\ StartPage(page.val, "for_initial")
                        /\ UNCHANGED <<error, cause, returned>>
                   ELSE /\ Fail(<<ParsePrefix>> \o page.exc, "structure")
                        /\ UNCHANGED <<contents, token, idx, seen, last_marked, bare_marker>>
    /\ UNCHANGED <<max_posts, posts, file, stdout, exit_code, writes,
                   post_renderer, post_data>>

\* a post put in front of the accumulated posts
AppendPost_in_front(ps, post) == <<post>> \o ps

\* lines 154 and 180: posts.append(post_data)
AppendPost(ps, post) == Append(ps, post)

\* lines 150-157 and 176-183: one iteration of the for loop over contents
ProcessItem(loop) ==
    /\ pc = loop
    /\ LET content == contents[idx]
           post == ExtractThread(content)
           next == IF idx = Len(contents) THEN "while" ELSE loop
       IN  IF ~IsThread(content)
           THEN /\ idx' = idx + 1
                /\ pc' = next
                /\ UNCHANGED <<posts, returned, error, cause>>
           ELSE IF ~post.ok
           THEN /\ Fail(<<ParsePrefix>> \o post.exc, "structure")
                /\ UNCHANGED <<posts, idx>>
           ELSE /\ posts' = AppendPost(posts, post.val)
                /\ IF ReachedMax(Len(posts'), max_posts)
                   THEN /\ returned' = <<posts'>>
                        /\ pc' = "save"
                        /\ UNCHANGED idx
                   ELSE /\ idx' = idx + 1
                        /\ pc' = next
                        /\ UNCHANGED returned
                /\ UNCHANGED <<error, cause>>
    /\ UNCHANGED <<max_posts, contents, token, file, stdout, exit_code, requests, seen,
                   last_marked, bare_marker, writes, listed, post_renderer, post_data>>

ProcessInitialItem == ProcessItem("for_initial")
ProcessContinuationItem == ProcessItem("for_continuation")

\* the condition of line 160 without its test of the token
MorePages_any_token == ~ReachedMax(Len(posts), max_posts)

\* the condition of line 160 without its test of the count
MorePages_any_count == Truthy(token)

\* line 160: the condition of the while loop
MorePages == Truthy(token) /\ ~ReachedMax(Len(posts), max_posts)

\* lines 160-173: a continuation request and the parse of its response
GetContinuationPage ==
    /\ pc = "while"
    /\ MorePages
    /\ Len(requests) < MaxRequests
    /\ requests' = Append(requests, get_continuation_data(token))
    /\ \/ \E f \in TransportFailures :
            /\ Fail(<<ParsePrefix, RequestPrefix, f>>, "transport")
            /\ UNCHANGED <<contents, token, idx, seen, last_marked, bare_marker>>
       \/ \E response \in ContinuationResponses :
            LET page == ContinuationItems(response)
            IN  IF page.ok
                THEN /\ StartPage(page.val, "for_continuation")
                     /\ UNCHANGED <<error, cause, returned>>
                ELSE /\ Fail(<<ParsePrefix>> \o page.exc, "structure")
                     /\ UNCHANGED <<contents, token, idx, seen, last_marked, bare_marker>>
    /\ UNCHANGED <<max_posts, posts, file, stdout, exit_code, writes, listed,
                   post_renderer, post_data>>

\* lines 160 and 188: the while loop ends and the posts are returned
ReturnPosts ==
    /\ pc = "while"
    /\ ~MorePages
    /\ returned' = <<posts>>
    /\ pc' = "save"
    /\ UNCHANGED <<max_posts, contents, token, idx, posts, error, file, stdout, exit_code,
                   requests, seen, last_marked, bare_marker, writes, listed, cause, post_renderer,
                   post_data>>

\* the document of lines 198-204 with a count that leaves the last post out
ScrapeResult_miscounted(ps, channel_id) ==
    [channel_id |-> channel_id, posts_count |-> Len(ps) - 1, posts |-> ps]

\* save_posts, lines 198-204: the document (the dates of the run are left out)
ScrapeResult(ps, channel_id) ==
    [channel_id |-> channel_id, posts_count |-> Len(ps), posts |-> ps]

\* cli.py lines 20-23 and 29 with save_posts: what open and json.dump can do
SavePosts ==
    /\ pc = "save"
    /\ \/ /\ file' = ScrapeResult(returned[1], ChannelId)
          /\ writes' = writes + 1
          /\ stdout' = [printed |-> "Successfully scraped", count |-> Len(returned[1])]
          /\ exit_code' = 0
          /\ pc' = "exited"
          /\ UNCHANGED <<error, cause, returned>>
       \/ /\ Fail(<<"OSError">>, "save")
          /\ UNCHANGED <<file, writes, stdout, exit_code>>
       \/ /\ Fail(<<"UnicodeEncodeError">>, "save")
          /\ file' = Partial
          /\ writes' = writes + 1
          /\ UNCHANGED <<stdout, exit_code>>
    /\ UNCHANGED <<max_posts, contents, token, idx, posts, requests, seen,
                   last_marked, bare_marker, listed, post_renderer, post_data>>

\* the handler of cli.py lines 25-27 without its return 1
HandleException_exit_zero ==
    /\ pc = "except"
    /\ stdout' = [printed |-> "Error", message |-> error]
    /\ exit_code' = 0
    /\ pc' = "exited"
    /\ UNCHANGED <<max_posts, contents, token, idx, posts, error, returned, file,
                   requests, seen, last_marked, bare_marker, writes, listed, cause, post_renderer,
                   post_data>>

\* cli.py lines 25-27: main's handler
HandleException ==
    /\ pc = "except"
    /\ stdout' = [printed |-> "Error", message |-> error]
    /\ exit_code' = 1
    /\ pc' = "exited"
    /\ UNCHANGED <<max_posts, contents, token, idx, posts, error, returned, file,
                   requests, seen, last_marked, bare_marker, writes, listed, cause, post_renderer,
                   post_data>>

Next ==
    \/ GetInitialPage
    \/ ProcessInitialItem
    \/ ProcessContinuationItem
    \/ GetContinuationPage
    \/ ReturnPosts
    \/ SavePosts
    \/ HandleException

Spec == Init /\ [][Next]_vars

---------------------------------------------------------------------------
(* extract_post_data on its own *)

InitExtract ==
    /\ max_posts = <<>>
    /\ pc = "extract"
    /\ Idle
    /\ post_renderer \in Renderers
    /\ post_data = NoneDict

ExtractPost ==
    /\ pc = "extract"
    /\ post_data' = extract_post_data(post_renderer)
    /\ pc' = "extracted"
    /\ UNCHANGED <<max_posts, contents, token, idx, posts, error, returned, file, stdout,
                   exit_code, requests, seen, last_marked, bare_marker, writes, listed, cause,
                   post_renderer>>

NextExtract == ExtractPost

SpecExtract == InitExtract /\ [][NextExtract]_vars

---------------------------------------------------------------------------
(* Properties *)

Min(a, b) == IF a < b THEN a ELSE b
Take(s, n) == SubSeq(s, 1, Min(n, Len(s)))

\* every post-thread item of the sequence yields a record
AllExtract(items) == \A i \in 1..Len(items) : ExtractThread(items[i]).ok

\* the records of post-thread items that all yield one
RecordsOf(items) == [i \in 1..Len(items) |-> ExtractThread(items[i]).val]

HasReturned == returned # <<>>
Bounded == max_posts # <<>>

\* C1: when scrape_community_posts has returned under a maximum m >= 0, the
\* returned sequence has at most m posts.
C1_AtMostMax ==
    (HasReturned /\ Bounded /\ max_posts[1] >= 0) => Len(returned[1]) <= max_posts[1]

\* C2: under a maximum m >= 1, what scrape_community_posts returns is the
\* records of the first min(m, N) post-thread items of the pages received, in
\* page order and then item order, N being their number; it returns fewer than
\* m only when the chain has ended (no token to go on with).
C2_FirstPosts ==
    (HasReturned /\ Bounded /\ max_posts[1] >= 1) =>
        LET first == Take(seen, max_posts[1])
        IN  /\ AllExtract(first)
            /\ returned[1] = RecordsOf(first)
            /\ Len(returned[1]) < max_posts[1] =>
                    ~Truthy(token) /\ Len(returned[1]) = Len(seen)

\* C2 witness: the maximum 2 is reached on the first item of the second page,
\* whose second post-thread item is dropped.
C2_Witness ==
    /\ HasReturned
    /\ max_posts = <<2>>
    /\ Len(requests) = 2
    /\ Len(seen) = 3
    /\ Len(returned[1]) = 2
    /\ returned[1][1] # returned[1][2]
    /\ idx = 1

InLoop == pc \in {"for_initial", "for_continuation", "while"}
IsDocument(f) == f \notin {NoneDict, Partial}

\* C3: with no explicit maximum, once a page without a continuation marker is
\* received the run issues no further request and every step it takes advances
\* the loop over that page, fails or returns, a step being always possible, so
\* that the run ends; and the posts_count of a written document is the number
\* of post-thread items of all the pages received.
C3_UnboundedRun ==
    /\ [](~Bounded /\ IsDocument(file) =>
            /\ file.posts_count = Len(seen)
            /\ ~last_marked \/ token = <<>>)
    /\ [](~Bounded /\ InLoop /\ ~last_marked =>
            IF pc = "while" THEN ~Truthy(token) ELSE idx \in 1..Len(contents))
    /\ [][(~Bounded /\ InLoop /\ ~last_marked) =>
            /\ requests' = requests
            /\ \/ pc' = "save" /\ returned' = <<posts>>
               \/ pc' = "except" /\ cause' = "structure"
               \/ pc # "while" /\ idx' = idx + 1 /\ pc' \in {pc, "while"}]_vars

\* C3 witness: two pages were requested, the second without a marker, and the
\* document counts the posts of both.
C3_Witness ==
    /\ ~Bounded
    /\ IsDocument(file)
    /\ Len(requests) = 2
    /\ ~last_marked
    /\ file.posts_count = 3

\* C4: when a request or the parse of a page has failed, the run has ended in
\* failure, nothing was returned to main and no output file exists; so an
\* output file exists only if every request and every parse succeeded.
C4_AllOrNothing ==
    /\ cause \in {"transport", "structure"} =>
            /\ pc \in {"except", "exited"}
            /\ returned = <<>>
            /\ file = NoneDict
            /\ pc = "exited" => exit_code # 0
    /\ file # NoneDict => cause \notin {"transport", "structure"}

\* C4 witness: a post of the initial page was accumulated and the continuation
\* page failed to parse; the run has exited.
C4_Witness ==
    /\ pc = "exited"
    /\ cause = "structure"
    /\ Len(requests) = 2
    /\ Len(posts) >= 1

\* C5: when the tab list of the initial response holds no community tab, the
\* run fails with the parse (structure) failure, having issued the initial
\* request only, accumulated and returned no post and written no file.
C5_NoCommunityTab ==
    listed = "no" =>
        /\ pc \in {"except", "exited"}
        /\ cause = "structure"
        /\ error = <<ParsePrefix, "Community tab not found">>
        /\ Len(requests) = 1
        /\ posts = <<>>
        /\ returned = <<>>
        /\ file = NoneDict
        /\ pc = "exited" => exit_code = 1

\* C5 witness: a run that received a tab list without a community tab has exited.
C5_Witness == listed = "no" /\ pc = "exited"

\* the reply-button label of a renderer, "0" when absent (lines 94-95)
LabelOf(r) ==
    Get(Get(Get(Get(Get(Get(r, "actionButtons", EmptyDict),
        "commentActionButtonsRenderer", EmptyDict), "replyButton", EmptyDict),
        "buttonRenderer", EmptyDict), "text", EmptyDict), "simpleText", Zero)

\* the label is absent, empty or holds a word
LabelInScope(r) == LabelOf(r) = <<>> \/ \E i \in 1..Len(LabelOf(r)) : LabelOf(r)[i] # " "

\* C6: whichever optional nested fields of a post renderer are absent or empty,
\* extract_post_data returns a record and does not fail.
C6_NeverFails ==
    (pc = "extracted" /\ LabelInScope(post_renderer)) => post_data.ok

\* C7: the output file is opened at most once, and only after
\* scrape_community_posts has returned; a written document holds exactly the
\* returned posts, in order, and their number as posts_count.
C7_WrittenOnce ==
    /\ writes <= 1
    /\ file # NoneDict => HasReturned /\ writes = 1 /\ pc \in {"except", "exited"}
    /\ IsDocument(file) =>
            /\ file.posts = returned[1]
            /\ file.posts_count = Len(file.posts)

\* C7 witness: a document with two different posts was written.
C7_Witness ==
    /\ IsDocument(file)
    /\ file.posts_count = 2
    /\ file.posts[1] # file.posts[2]

\* C8: a run that has exited has status 0 exactly when the scrape returned
\* and the document was written, which is exactly when nothing failed; after a
\* failure the status is not 0 and the error message was printed.
C8_ExitStatus ==
    pc = "exited" =>
        /\ exit_code = 0 <=> (HasReturned /\ IsDocument(file))
        /\ exit_code = 0 <=> cause = "none"
        /\ cause # "none" =>
                /\ exit_code # 0
                /\ stdout = [printed |-> "Error", message |-> error]

\* C8 witness: the scrape returned, saving failed and the run exited with 1.
C8_Witness ==
    /\ pc = "exited"
    /\ HasReturned
    /\ cause = "save"
    /\ exit_code = 1

\* C9: a failed request surfaces as a transport failure and a missing
\* container as a structure (parse) failure, never one as the other.
C9_Classified ==
    /\ cause = "transport" => Head(error) = RequestPrefix
    /\ cause = "structure" => Head(error) = ParsePrefix

\* C10: once appending a post brings the count to the maximum the posts are
\* returned at once; and a continuation request is issued only from a state
\* with a non-empty token and a count below the maximum.
C10_RequestGuard ==
    /\ []((Bounded /\ posts # <<>> /\ Len(posts) >= max_posts[1]) =>
            returned = <<posts>> /\ pc \in {"save", "except", "exited"})
    /\ [][(requests' # requests /\ requests # <<>>) =>
            /\ Truthy(token)
            /\ Bounded => Len(posts) < max_posts[1]
            /\ requests' = Append(requests, [continuation |-> token])]_vars

\* C10 witness: the maximum was reached on the first item of a continuation
\* page that carries a marker with a token; the posts were returned.
C10_Witness ==
    /\ pc = "save"
    /\ Bounded
    /\ Len(requests) = 2
    /\ Len(posts) = max_posts[1]
    /\ Truthy(token)
    /\ idx = 1
    /\ Len(contents) = 2

\* C11: once a request has failed with a transport failure, the run issues no
\* further request, neither the same one again nor a later page, and ends in
\* main's handler.
C11_SingleAttempt ==
    /\ [](cause = "transport" => pc \in {"except", "exited"})
    /\ [][cause = "transport" => requests' = requests]_vars
    /\ [][cause' = "transport" /\ cause # "transport" =>
            Len(requests') = Len(requests) + 1 /\ pc' = "except"]_vars

\* C11 witness: the continuation request failed and the run has exited after
\* two requests.
C11_Witness ==
    /\ cause = "transport"
    /\ pc = "exited"
    /\ Len(requests) = 2

\* the markers of an item list, in order
MarkersOf(items) == SelectSeq(items, IsMarker)

\* the token an item list hands on: that of its first marker, None without one
TokenOf(items) ==
    IF MarkersOf(items) = <<>> THEN NoneVal
    ELSE MarkersOf(items)[1].continuationItemRenderer.continuationEndpoint
             .continuationCommand.token

LastN(s, n) == SubSeq(s, Len(s) - n + 1, Len(s))

C14_AppendOnly ==
    /\ [][/\ Len(posts') \in {Len(posts), Len(posts) + 1}
          /\ SubSeq(posts', 1, Len(posts)) = posts]_vars
    /\ [](HasReturned => returned[1] = posts)

\* C14 witness: two different records were accumulated over two pages.
C14_Witness ==
    /\ Len(requests) = 2
    /\ Len(posts) = 2
    /\ posts[1] # posts[2]
    /\ InLoop

Extracted == pc = "extracted" /\ post_data.ok

\* the content runs of a renderer, none when it has no contentText or no runs
RunsOf(r) == Get(Get(r, "contentText", EmptyDict), "runs", <<>>)

\* the navigation target of a run: the url under its navigationEndpoint
TargetPath == <<"navigationEndpoint", "commandMetadata", "webCommandMetadata", "url">>
HasTarget(run) == Subscript(run, TargetPath).ok /\ Subscript(run, TargetPath).val # <<>>

\* the link entry of a run that has a navigation target
LinkOf(run) ==
    LET target == Subscript(run, TargetPath).val
    IN  [text |-> IF "text" \in DOMAIN run THEN run.text ELSE <<>>,
         url |-> IF target[1] = "/" THEN Origin \o target ELSE target]

\* C15: the links of an extracted record are, in the order of the runs, one
\* entry for each run that has a navigation target and none for the others;
\* the entry holds the text of the run and its target, a target that starts
\* with "/" being prefixed with https://www.youtube.com.
C15_Links ==
    Extracted =>
        LET linked == SelectSeq(RunsOf(post_renderer), HasTarget)
        IN  post_data.val.links = [i \in 1..Len(linked) |-> LinkOf(linked[i])]

\* C15 witness: of two runs, the one without a target gave no link and the
\* one with the target /p gave the link to https://www.youtube.com/p.
C15_Witness ==
    /\ Extracted
    /\ Len(RunsOf(post_renderer)) = 2
    /\ ~HasTarget(RunsOf(post_renderer)[1])
    /\ post_data.val.links = <<[text |-> <<"y">>, url |-> Origin \o <<"/", "p">>]>>

\* the thumbnails of the image attachment of a renderer, none without one
ThumbnailsOf(r) ==
    LET t == Subscript(r, <<"backstageAttachment", "backstageImageRenderer",
                            "image", "thumbnails">>)
    IN  IF t.ok THEN t.val ELSE <<>>

\* a url cut before its first "="
BeforeDelimiter(u) ==
    IF \E i \in 1..Len(u) : u[i] = "="
    THEN SubSeq(u, 1, (CHOOSE i \in 1..Len(u) :
                          u[i] = "=" /\ \A j \in 1..(i - 1) : u[j] # "=") - 1)
    ELSE u

\* C16: the images of an extracted record are empty when the renderer has no
\* image attachment or an empty thumbnail list; otherwise they are one entry,
\* whose standard is the url of the first thumbnail and whose high_res is
\* that url cut before its first "=" and followed by "=s2160".
C16_Images ==
    Extracted =>
        LET thumbnails == ThumbnailsOf(post_renderer)
        IN  IF thumbnails = <<>> THEN post_data.val.images = <<>>
            ELSE post_data.val.images =
                    <<[standard |-> thumbnails[1].url,
                       high_res |-> BeforeDelimiter(thumbnails[1].url)
                                        \o <<"=", "s", "2", "1", "6", "0">>]>>

\* C16 witness: the thumbnail url h=w=x gave the high_res url h=s2160.
C16_Witness ==
    /\ Extracted
    /\ post_data.val.images =
            <<[standard |-> <<"h", "=", "w", "=", "x">>,
               high_res |-> <<"h", "=", "s", "2", "1", "6", "0">>]>>


FiniteRun == Bounded /\ max_posts[1] >= 1 /\ ~bare_marker

\* C17: with a finite maximum m >= 1, as long as every page received that
\* holds a continuation marker also holds a post-thread item, the run has
\* issued at most m requests, whatever the tokens; a further request is due
\* only while fewer than m were issued, and every step of the loop issues a
\* request, advances the loop over the page, fails or returns, so that the run
\* ends in a return or a failure.
C17_FiniteRun ==
    /\ [](FiniteRun => Len(requests) <= max_posts[1])
    /\ [](FiniteRun /\ pc = "while" /\ Truthy(token) /\ Len(posts) < max_posts[1] =>
            Len(requests) < max_posts[1] /\ Len(requests) < MaxRequests)
    /\ [](FiniteRun /\ pc \in {"for_initial", "for_continuation"} =>
            idx \in 1..Len(contents))
    /\ [][(FiniteRun /\ ~bare_marker' /\ InLoop) =>
            \/ pc' = "save" /\ returned' = <<posts'>> /\ requests' = requests
            \/ pc' = "except" /\ cause' \in {"transport", "structure"}
            \/ /\ pc = "while"
               /\ Len(requests') = Len(requests) + 1
               /\ Len(requests') <= max_posts[1]
               /\ Len(posts) >= Len(requests)
               /\ idx' = 1
            \/ /\ pc # "while"
               /\ requests' = requests
               /\ idx' = idx + 1
               /\ pc' \in {pc, "while"}]_vars

\* C17 witness: with the maximum 2, the second page repeated the token of the
\* first and the run returned after two requests.
C17_Witness ==
    /\ FiniteRun
    /\ max_posts = <<2>>
    /\ pc = "save"
    /\ Len(requests) = 2
    /\ Truthy(token)
    /\ requests[2] = [continuation |-> token]
    /\ Len(returned[1]) = 2


ManyMarkers(items) == Len(MarkersOf(items)) > 1

\* C18: of an item list with more than one continuation marker the token of
\* the first marker in list order is the one kept and sent with the next
\* request; and when the token of the list is None or the empty string no
\* further request is issued and, at the loop condition, the posts accumulated
\* so far are returned unchanged.
C18_FirstMarker ==
    /\ [](InLoop /\ ManyMarkers(contents) => token = TokenOf(contents))
    /\ [][(pc = "while" /\ ManyMarkers(contents) /\ requests' # requests) =>
            requests' = Append(requests, [continuation |-> TokenOf(contents)])]_vars
    /\ [][(InLoop /\ ~Truthy(TokenOf(contents))) => requests' = requests]_vars
    /\ [][(pc = "while" /\ ~Truthy(TokenOf(contents))) =>
            pc' = "save" /\ posts' = posts /\ returned' = <<posts>>]_vars

\* C18 witness: the second page held a marker with the empty token before a
\* marker with a token; the run took the empty one, issued no third request
\* and returned the post of the first page.
C18_Witness ==
    /\ pc = "save"
    /\ Len(requests) = 2
    /\ contents = <<Marker(<<>>), Marker(<<"A">>)>>
    /\ token = <<>>
    /\ Len(posts) = 1
    /\ returned = <<posts>>

====
